---------------------------- MODULE Spec2Model ----------------------------
(***************************************************************************)
(* Model of the feature-analysis tools of Navius:                          *)
(*   .devtools/feature-analysis/analyze_deps.py       (dependency matrix)  *)
(*   .devtools/feature-analysis/inventory_features.py (usage inventory)    *)
(*                                                                         *)
(* Python strings are sequences of one-character strings, so that          *)
(* startswith, slicing and lexicographic sorting are computed, not         *)
(* assumed.  A Python dict is a sequence of [k, v] entries in insertion    *)
(* order with distinct keys.  Python's None is the record NoneVal (or the  *)
(* string NoneKind in a field that otherwise holds a string).              *)
(***************************************************************************)
EXTENDS Integers, Sequences, FiniteSets, TLC

VARIABLES
    \* ---- analyze_deps.py ------------------------------------------------
    cargo,          \* environment: what `cargo metadata` does when it is run
    pc,             \* position of analyze_deps.main
    metadata,       \* main: metadata
    data,           \* main: data
    resolved_deps,  \* main: resolved_deps (dict feature -> set of names)
    matrix,         \* main: matrix (the table, structured)
    candidates,     \* main: candidates
    report_file,    \* file system: dependency_analysis.md
    exit_status,    \* process exit status of analyze_deps.py
    \* ---- resolve_feature, one interpreter step at a time ----------------
    rpc,            \* position of calculate_dependency_usage's loop
    graph,          \* data["features"] of the stepwise run
    findex,         \* index of the feature the outer loop is at
    stack,          \* call stack of resolve_feature frames
    retval,         \* value returned by the frame that last returned
    rresolved,      \* resolved_deps of the stepwise run
    \* ---- inventory_features.py -----------------------------------------
    cargo_toml,     \* file system: Cargo.toml of base_dir
    tree,           \* file system: the .rs files under base_dir, in os.walk order
    ipc,            \* position of inventory_features.main
    defined_features, \* generate_feature_inventory: features
    feature_usage,  \* generate_feature_inventory: feature_usage
    file_count,     \* generate_feature_inventory: file_count
    files_with_features, \* generate_feature_inventory: files_with_features
    inventory,      \* main: inventory (the report)
    json_file,      \* file system: report/feature_inventory.json
    markdown_file,  \* file system: report/feature_inventory.md
    iexit           \* process exit status of inventory_features.py

depVars == <<cargo, pc, metadata, data, resolved_deps, matrix, candidates,
             report_file, exit_status>>
stepVars == <<rpc, graph, findex, stack, retval, rresolved>>
invVars == <<cargo_toml, tree, ipc, defined_features, feature_usage, file_count,
             files_with_features, inventory, json_file, markdown_file, iexit>>
vars == <<depVars, stepVars, invVars>>

-----------------------------------------------------------------------------
(* Python strings *)

s_dep == <<"d", "e", "p", ":">>
s_x == <<"x">>
s_y == <<"y">>
s_z == <<"z">>
s_A == <<"A">>
s_B == <<"B">>
s_C == <<"C">>
s_F2 == <<"F", "2">>
s_F10 == <<"F", "1", "0">>
s_pkg == <<"p", "k", "g">>
s_other == <<"o", "t", "h", "e", "r">>

\* ord(c) for the characters the model uses
CodePoint(c) ==
    CASE c = "-" -> 45 [] c = "." -> 46 [] c = "/" -> 47
      [] c = "0" -> 48 [] c = "1" -> 49 [] c = "2" -> 50
      [] c = ":" -> 58
      [] c = "A" -> 65 [] c = "B" -> 66 [] c = "C" -> 67 [] c = "F" -> 70
      [] c = "a" -> 97 [] c = "b" -> 98 [] c = "c" -> 99 [] c = "d" -> 100
      [] c = "e" -> 101 [] c = "g" -> 103 [] c = "h" -> 104 [] c = "k" -> 107
      [] c = "m" -> 109 [] c = "o" -> 111 [] c = "p" -> 112 [] c = "r" -> 114
      [] c = "s" -> 115 [] c = "t" -> 116 [] c = "x" -> 120 [] c = "y" -> 121
      [] c = "z" -> 122

\* s < t for Python str: lexicographic by code point, a proper prefix first
RECURSIVE StrLess(_, _)
StrLess(s, t) ==
    IF t = <<>> THEN FALSE
    ELSE IF s = <<>> THEN TRUE
    ELSE IF CodePoint(Head(s)) < CodePoint(Head(t)) THEN TRUE
    ELSE IF CodePoint(Head(s)) > CodePoint(Head(t)) THEN FALSE
    ELSE StrLess(Tail(s), Tail(t))

\* str.startswith(prefix)
startswith(s, prefix) ==
    /\ Len(s) >= Len(prefix)
    /\ SubSeq(s, 1, Len(prefix)) = prefix

\* s[n:]
SliceFrom(s, n) == SubSeq(s, n + 1, Len(s))

\* s + t
Concat(s, t) == s \o t

-----------------------------------------------------------------------------
(* Python lists, sets and dicts *)

\* None, and a value that is not None
NoneVal == [tag |-> "None"]
Some(v) == [tag |-> "Some", val |-> v]
\* None in a field that otherwise holds a str
NoneKind == "None"

Range(s) == {s[i] : i \in DOMAIN s}

\* list.insert keeping order: the place sorted() gives x among the sorted xs
RECURSIVE InsertSorted(_, _)
InsertSorted(x, xs) ==
    IF xs = <<>> THEN <<x>>
    ELSE IF StrLess(x, Head(xs)) THEN <<x>> \o xs
    ELSE <<Head(xs)>> \o InsertSorted(x, Tail(xs))

\* sorted(xs) for a list of str (stable; equal strings are indistinguishable)
RECURSIVE sorted(_)
sorted(xs) ==
    IF xs = <<>> THEN <<>>
    ELSE InsertSorted(xs[Len(xs)], sorted(SubSeq(xs, 1, Len(xs) - 1)))

\* dict.keys() in insertion order
Keys(d) == [i \in DOMAIN d |-> d[i].k]

\* k in d
Has(d, k) == \E i \in DOMAIN d : d[i].k = k

\* d[k]
Get(d, k) == d[CHOOSE i \in DOMAIN d : d[i].k = k].v

\* d[k] = v: a new key goes last, a present key keeps its place
Put(d, k, v) ==
    IF Has(d, k)
    THEN [i \in DOMAIN d |-> IF d[i].k = k THEN [k |-> k, v |-> v] ELSE d[i]]
    ELSE Append(d, [k |-> k, v |-> v])

IsSortedStr(xs) == \A i \in 1..(Len(xs) - 1) : ~StrLess(xs[i + 1], xs[i])

-----------------------------------------------------------------------------
(* analyze_deps.py: the functions *)

\* dep.get("optional", False)
GetOptional(dep) == IF "optional" \in DOMAIN dep THEN dep.optional ELSE FALSE

\* dep.get("kind", "normal"): a key that is present with null gives None
GetKind(dep) == IF "kind" \in DOMAIN dep THEN dep.kind ELSE "normal"

\* dep.get("features", [])
GetFeatures(dep) == IF "features" \in DOMAIN dep THEN dep.features ELSE <<>>

\* the packages of metadata["packages"] whose id is in workspace_members
MemberIndexes(md) ==
    {i \in DOMAIN md.packages : md.packages[i].id \in md.workspace_members}

\* the first such package (the loop breaks at it)
RootIndex(md) == CHOOSE i \in MemberIndexes(md) : \A j \in MemberIndexes(md) : i <= j

extract_dependency_information(md) ==
    IF MemberIndexes(md) = {} THEN NoneVal
    ELSE LET root_package == md.packages[RootIndex(md)]
         IN Some([package_name |-> root_package.name,
                  features |-> root_package.features,
                  dependencies |->
                      [i \in DOMAIN root_package.dependencies |->
                          LET dep == root_package.dependencies[i]
                          IN [name |-> dep.name,
                              optional |-> GetOptional(dep),
                              features |-> GetFeatures(dep),
                              kind |-> GetKind(dep)]]])

\* the deps list built for one feature: item[4:] of each item with the prefix
DirectDeps(feature_items) ==
    LET isdep(item) == startswith(item, s_dep)
        picked == SelectSeq(feature_items, isdep)
    IN [i \in DOMAIN picked |-> SliceFrom(picked[i], 4)]

\* feature_deps: feature -> list of names
FeatureDeps(features) ==
    [i \in DOMAIN features |-> [k |-> features[i].k, v |-> DirectDeps(features[i].v)]]

\* a resolve_feature whose loop never recurses: direct dependencies only
FeatureEdgesNone(features, feature_name) == {}

\* the items of a feature the loop of resolve_feature recurses into
FeatureEdges(features, feature_name) ==
    {item \in Range(Get(features, feature_name)) :
        ~startswith(item, s_dep) /\ Has(features, item)}

\* a test that never finds the feature among the seen ones
RevisitedNever(feature_name, seen) == FALSE

\* if feature_name in seen
Revisited(feature_name, seen) == feature_name \in seen

RECURSIVE resolve_feature(_, _, _, _)
resolve_feature(features, feature_deps, feature_name, seen) ==
    IF Revisited(feature_name, seen) THEN {}
    ELSE IF ~Has(features, feature_name) THEN {}
    ELSE LET seen1 == seen \cup {feature_name}
             direct_deps == Range(Get(feature_deps, feature_name))
             indirect_deps ==
                 UNION {resolve_feature(features, feature_deps, item, seen1) :
                           item \in FeatureEdges(features, feature_name)}
         IN direct_deps \cup indirect_deps

calculate_dependency_usage(d) ==
    [i \in DOMAIN d.features |->
        [k |-> d.features[i].k,
         v |-> resolve_feature(d.features, FeatureDeps(d.features),
                               d.features[i].k, {})]]

\* the cell symbols of the matrix and what the legend calls them
Required == "required"                  \* check mark
OptionalExcluded == "optional-excluded" \* cross
AlwaysIncluded == "always-included"     \* white circle

DepNames(d) == [i \in DOMAIN d.dependencies |-> d.dependencies[i].name]
OptionalDeps(d) == {dep.name : dep \in {x \in Range(d.dependencies) : x.optional}}
DevDeps(d) == {dep.name : dep \in {x \in Range(d.dependencies) : x.kind = "dev"}}
BuildDeps(d) == {dep.name : dep \in {x \in Range(d.dependencies) : x.kind = "build"}}

\* cells that ignore the resolved set for a non-optional dependency
MatrixCellNeverRequired(d, resolved, dep_name, feature) ==
    IF dep_name \in OptionalDeps(d)
    THEN (IF dep_name \in Get(resolved, feature) THEN Required ELSE OptionalExcluded)
    ELSE AlwaysIncluded

\* cells that mark an optional dependency outside the resolved set as always
\* included
MatrixCellNoCross(d, resolved, dep_name, feature) ==
    IF dep_name \in Get(resolved, feature) THEN Required ELSE AlwaysIncluded

\* one cell of the row of dep_name
MatrixCell(d, resolved, dep_name, feature) ==
    IF dep_name \in OptionalDeps(d)
    THEN (IF dep_name \in Get(resolved, feature) THEN Required ELSE OptionalExcluded)
    ELSE (IF dep_name \in Get(resolved, feature) THEN Required ELSE AlwaysIncluded)

generate_dependency_matrix(d, resolved) ==
    LET all_features == sorted(Keys(d.features))
        all_deps == sorted(DepNames(d))
        notdev(dep_name) == dep_name \notin DevDeps(d)
        shown == SelectSeq(all_deps, notdev)
    IN [header |-> all_features,
        rows |-> [r \in DOMAIN shown |->
                    [dep |-> shown[r],
                     cells |-> [c \in DOMAIN all_features |->
                                  MatrixCell(d, resolved, shown[r], all_features[c])]]]]

\* used_by_features of one dependency, in the order of resolved_deps.items()
UsedByFeatures(resolved, dep) ==
    LET uses(e) == dep.name \in e.v
    IN Keys(SelectSeq(resolved, uses))

\* a test that skips only the optional dependencies
SkipCandidateOptionalOnly(dep) == dep.optional

\* the test that skips a dependency
SkipCandidate(dep) == dep.optional \/ dep.kind # "normal"

identify_optimization_candidates(d, resolved) ==
    LET all_features == Range(Keys(d.features))
        keep(dep) ==
            /\ ~SkipCandidate(dep)
            /\ 0 < Len(UsedByFeatures(resolved, dep))
            /\ Len(UsedByFeatures(resolved, dep)) < Cardinality(all_features)
        kept == SelectSeq(d.dependencies, keep)
    IN [i \in DOMAIN kept |->
          [name |-> kept[i].name, used_by |-> sorted(UsedByFeatures(resolved, kept[i]))]]

-----------------------------------------------------------------------------
(* analyze_deps.py: main, one action per call it makes *)

RunCargoMetadata ==
    /\ pc = "run_cargo_metadata"
    /\ IF cargo.outcome = "ok"
       THEN \* json.loads(result.stdout); a non-empty dict is truthy
            /\ metadata' = Some(cargo.doc)
            /\ pc' = "extract_dependency_information"
            /\ exit_status' = exit_status
       ELSE IF cargo.outcome \in {"CalledProcessError", "JSONDecodeError"}
       THEN \* caught: prints, returns None; main returns
            /\ metadata' = NoneVal
            /\ pc' = "exit"
            /\ exit_status' = Some(0)
       ELSE \* FileNotFoundError (no cargo on PATH) is not caught: traceback
            /\ metadata' = metadata
            /\ pc' = "exit"
            /\ exit_status' = Some(1)
    /\ UNCHANGED <<cargo, data, resolved_deps, matrix, candidates, report_file>>
    /\ UNCHANGED <<stepVars, invVars>>

ExtractDependencyInformation ==
    /\ pc = "extract_dependency_information"
    /\ data' = extract_dependency_information(metadata.val)
    /\ IF data' = NoneVal
       THEN pc' = "exit" /\ exit_status' = Some(0)
       ELSE pc' = "calculate_dependency_usage" /\ exit_status' = exit_status
    /\ UNCHANGED <<cargo, metadata, resolved_deps, matrix, candidates, report_file>>
    /\ UNCHANGED <<stepVars, invVars>>

CalculateDependencyUsage ==
    /\ pc = "calculate_dependency_usage"
    /\ resolved_deps' = Some(calculate_dependency_usage(data.val))
    /\ pc' = "generate_dependency_matrix"
    /\ UNCHANGED <<cargo, metadata, data, matrix, candidates, report_file, exit_status>>
    /\ UNCHANGED <<stepVars, invVars>>

GenerateDependencyMatrix ==
    /\ pc = "generate_dependency_matrix"
    /\ matrix' = Some(generate_dependency_matrix(data.val, resolved_deps.val))
    /\ pc' = "identify_optimization_candidates"
    /\ UNCHANGED <<cargo, metadata, data, resolved_deps, candidates, report_file,
                   exit_status>>
    /\ UNCHANGED <<stepVars, invVars>>

IdentifyOptimizationCandidates ==
    /\ pc = "identify_optimization_candidates"
    /\ candidates' = Some(identify_optimization_candidates(data.val, resolved_deps.val))
    /\ pc' = "output"
    /\ UNCHANGED <<cargo, metadata, data, resolved_deps, matrix, report_file,
                   exit_status>>
    /\ UNCHANGED <<stepVars, invVars>>

\* print the results, write dependency_analysis.md, return
OutputResults ==
    /\ pc = "output"
    /\ report_file' = Some([matrix |-> matrix.val, candidates |-> candidates.val])
    /\ pc' = "exit"
    /\ exit_status' = Some(0)
    /\ UNCHANGED <<cargo, metadata, data, resolved_deps, matrix, candidates>>
    /\ UNCHANGED <<stepVars, invVars>>

NextDeps ==
    \/ RunCargoMetadata
    \/ ExtractDependencyInformation
    \/ CalculateDependencyUsage
    \/ GenerateDependencyMatrix
    \/ IdentifyOptimizationCandidates
    \/ OutputResults

-----------------------------------------------------------------------------
(* The inputs *)

\* total number of requirement tokens in the features table (SpecResolve)
MaxTokens == 4
\* number of entries of the root package's dependencies list (SpecMatrix)
MaxDeps == 2

Dep(name) == Concat(s_dep, name)

\* dependencies of the root package as cargo prints them; kind is null for a
\* normal dependency, and the key may be missing from hand-made metadata
MetaDep(name, optional, kind) ==
    IF kind = "absent" THEN [name |-> name, optional |-> optional]
    ELSE [name |-> name, optional |-> optional, kind |-> kind]

\* (optional, kind) of the entries: normal ones with the key missing or null,
\* optional or not; dev and build ones
MetaDepShapes ==
    {<<FALSE, "absent">>, <<TRUE, "absent">>, <<FALSE, NoneKind>>, <<TRUE, NoneKind>>,
     <<FALSE, "dev">>, <<FALSE, "build">>}

MetaDeps == {MetaDep(n, sh[1], sh[2]) : n \in {s_x, s_y}, sh \in MetaDepShapes}

\* package ids
PkgId == "pkg 0.1.0"
OtherId == "other 1.0.0"

Package(id, name, features, dependencies) ==
    [id |-> id, name |-> name, features |-> features, dependencies |-> dependencies]

\* a package of the registry that the root package depends on
OtherPackage ==
    Package(OtherId, s_other,
            <<[k |-> s_A, v |-> <<Dep(s_y)>>]>>,
            <<MetaDep(s_y, FALSE, "absent")>>)

CargoOk(doc) == [outcome |-> "ok", doc |-> doc]
CargoFails(how) == [outcome |-> how]

\* x is an optional dependency, y a non-optional one, z is not declared
ResolveDeps == <<MetaDep(s_x, TRUE, NoneKind), MetaDep(s_y, FALSE, NoneKind)>>
ResolveTokens == {Dep(s_x), Dep(s_z), s_A, s_B, s_C}
ResolveNames == <<s_A, s_B, s_C>>

\* the items of feature i when flat is cut at cuts[1] <= ... <= cuts[n-1]
CutItems(flat, cuts, n, i) ==
    SubSeq(flat, (IF i = 1 THEN 0 ELSE cuts[i - 1]) + 1,
                 IF i = n THEN Len(flat) ELSE cuts[i])

\* the nondecreasing cut points of a list of len items into n parts
Cuts(n, len) ==
    {c \in [1..(n - 1) -> 0..len] : \A i \in 1..(n - 2) : c[i] <= c[i + 1]}

\* the features table with the first n names as keys and flat as their items
GraphOf(names, n, flat, cuts) ==
    [i \in 1..n |-> [k |-> names[i], v |-> CutItems(flat, cuts, n, i)]]

\* features tables of SpecMatrix: the first n keys of an order (sorted, or
\* reversed), each feature with no item or with dep:x
MatrixOrders == {<<s_A, s_F10, s_F2>>, <<s_F2, s_F10, s_A>>}
MatrixItems == {<<>>, <<Dep(s_x)>>}
MatrixGraph(order, n, items) == [i \in 1..n |-> [k |-> order[i], v |-> items[i]]]

\* what an earlier run left in dependency_analysis.md
StaleReport == [matrix |-> [tag |-> "stale"], candidates |-> <<>>]

InitLocals ==
    /\ pc = "run_cargo_metadata"
    /\ metadata = NoneVal
    /\ data = NoneVal
    /\ resolved_deps = NoneVal
    /\ matrix = NoneVal
    /\ candidates = NoneVal
    /\ exit_status = NoneVal

InventoryIdle ==
    /\ cargo_toml = [exists |-> FALSE]
    /\ tree = <<>>
    /\ ipc = "idle"
    /\ defined_features = NoneVal
    /\ feature_usage = <<>>
    /\ file_count = 0
    /\ files_with_features = 0
    /\ inventory = NoneVal
    /\ json_file = NoneVal
    /\ markdown_file = NoneVal
    /\ iexit = NoneVal

StepIdle ==
    /\ InventoryIdle
    /\ rpc = "idle"
    /\ graph = <<>>
    /\ findex = 0
    /\ stack = <<>>
    /\ retval = {}
    /\ rresolved = <<>>

RootOnly(features, dependencies) ==
    CargoOk([packages |-> <<Package(PkgId, s_pkg, features, dependencies)>>,
             workspace_members |-> {PkgId}])

\* rich feature graphs, a fixed dependency list
InitResolve ==
    /\ \E n \in 0..Len(ResolveNames) : \E len \in 0..MaxTokens :
         \E flat \in [1..len -> ResolveTokens] : \E cuts \in Cuts(n, len) :
            /\ n = 0 => len = 0
            /\ cargo = RootOnly(GraphOf(ResolveNames, n, flat, cuts), ResolveDeps)
    /\ report_file = NoneVal
    /\ InitLocals
    /\ StepIdle

\* rich dependency lists, feature graphs of direct dependencies
InitMatrix ==
    /\ \E order \in MatrixOrders : \E n \in 0..Len(order) :
         \E items \in [1..n -> MatrixItems] :
           \E len \in 0..MaxDeps : \E deps \in [1..len -> MetaDeps] :
              cargo = RootOnly(MatrixGraph(order, n, items), deps)
    /\ report_file = NoneVal
    /\ InitLocals
    /\ StepIdle

SpecResolve == InitResolve /\ [][NextDeps]_vars
SpecMatrix == InitMatrix /\ [][NextDeps]_vars

-----------------------------------------------------------------------------
(* Resolution: what the claims compare calculate_dependency_usage with *)

FeatureNamesOf(features) == Range(Keys(features))

\* a feature-reference token of feature a that names the defined feature b
IsEdge(features, a, b) ==
    /\ Has(features, a)
    /\ Has(features, b)
    /\ \E i \in DOMAIN Get(features, a) :
          Get(features, a)[i] = b /\ ~startswith(b, s_dep)

\* the features reachable from the set S through zero or more edges
RECURSIVE ReachFrom(_, _)
ReachFrom(features, S) ==
    LET S1 == S \cup {b \in FeatureNamesOf(features) :
                         \E a \in S : IsEdge(features, a, b)}
    IN IF S1 = S THEN S ELSE ReachFrom(features, S1)

\* the names d of the tokens dep:d of feature g
DepTokenNames(features, g) ==
    {SubSeq(t, Len(s_dep) + 1, Len(t)) :
        t \in {u \in Range(Get(features, g)) : startswith(u, s_dep)}}

ReachableDeps(features, f) ==
    UNION {DepTokenNames(features, g) : g \in ReachFrom(features, {f})}

\* main is at the return of calculate_dependency_usage (resolved_deps and data
\* are not assigned again after it)
Calculated == pc = "generate_dependency_matrix"

\* C1: when calculate_dependency_usage returns, every defined feature f
\* is mapped to exactly the names d of the tokens dep:d of the features
\* reachable from f through zero or more feature-reference tokens that name
\* defined features (so a token Q of P and dep:d of Q put d in the set of P,
\* and a feature reached on a sibling branch is not cut off by a cycle).
C1_ResolvedIsReachableDeps ==
    Calculated =>
        /\ Keys(resolved_deps.val) = Keys(data.val.features)
        /\ \A f \in FeatureNamesOf(data.val.features) :
              Get(resolved_deps.val, f) = ReachableDeps(data.val.features, f)

\* A = [B, C], B = [A], C = [dep:x]: the branch through B re-enters A, the
\* sibling branch reaches C, and x is resolved for A and for B (through A)
C1_Witness ==
    /\ Calculated
    /\ LET F == data.val.features
       IN /\ Has(F, s_A) /\ Has(F, s_B) /\ Has(F, s_C)
          /\ Get(F, s_A) = <<s_B, s_C>>
          /\ Get(F, s_B) = <<s_A>>
          /\ Get(F, s_C) = <<Dep(s_x)>>
          /\ Get(resolved_deps.val, s_A) = {s_x}
          /\ Get(resolved_deps.val, s_B) = {s_x}

\* the names of the entries of the dependency list
DeclaredDepNames(d) == Range(DepNames(d))

\* features with the items that satisfy Inert removed
StripItems(features, Inert(_)) ==
    LET keep(item) == ~Inert(item)
    IN [i \in DOMAIN features |->
          [k |-> features[i].k, v |-> SelectSeq(features[i].v, keep)]]

\* every name carried by a dep: token of some feature
AllDepTokenNames(features) ==
    UNION {DepTokenNames(features, g) : g \in FeatureNamesOf(features)}

\* C4: a token that is neither dep:d with d in the dependency list nor the
\* name of a declared feature contributes nothing to any resolved set, and
\* every name in every resolved set is the name of a declared dependency.
C4_OnlyDeclaredDeps ==
    Calculated =>
        LET F == data.val.features
            declared == DeclaredDepNames(data.val)
            unknown(item) ==
                /\ ~(startswith(item, s_dep) /\ SliceFrom(item, 4) \in declared)
                /\ ~Has(F, item)
        IN \A f \in FeatureNamesOf(F) :
              /\ Get(resolved_deps.val, f) = ReachableDeps(StripItems(F, unknown), f)
              /\ Get(resolved_deps.val, f) \subseteq declared

\* what the code keeps of C4: a token without the prefix dep: that names no
\* declared feature contributes nothing, and every resolved name is the name
\* of a dep: token of some declared feature, declared as a dependency or not
InertTokensContributeNothing ==
    Calculated =>
        LET F == data.val.features
            inert(item) == ~startswith(item, s_dep) /\ ~Has(F, item)
        IN \A f \in FeatureNamesOf(F) :
              /\ Get(resolved_deps.val, f) = ReachableDeps(StripItems(F, inert), f)
              /\ Get(resolved_deps.val, f) \subseteq AllDepTokenNames(F)

-----------------------------------------------------------------------------
(* The matrix and the candidates *)

\* the column of a feature in the header
ColumnOf(m, feature) == CHOOSE c \in DOMAIN m.header : m.header[c] = feature

\* some entry of the dependency list with this name is optional
NamedOptional(d, name) == \E dep \in Range(d.dependencies) : dep.name = name /\ dep.optional

\* some entry of the dependency list with this name is not optional
NamedNonOptional(d, name) ==
    \E dep \in Range(d.dependencies) : dep.name = name /\ ~dep.optional

\* C3 as claimed: every cell of the row of a non-optional dependency is
\* ALWAYS-INCLUDED, whether or not the name is in the feature's resolved set.
C3_Original_NonOptionalAlwaysIncluded ==
    matrix # NoneVal =>
        \A r \in DOMAIN matrix.val.rows :
            NamedNonOptional(data.val, matrix.val.rows[r].dep) =>
                \A c \in DOMAIN matrix.val.header :
                    matrix.val.rows[r].cells[c] = AlwaysIncluded

\* C3 (amended): in the row of a dependency no entry of whose name is
\* optional, the cell of a feature is REQUIRED when the name is in the
\* feature's resolved set and ALWAYS-INCLUDED otherwise.
C3_NonOptionalCells ==
    matrix # NoneVal =>
        \A r \in DOMAIN matrix.val.rows :
            ~NamedOptional(data.val, matrix.val.rows[r].dep) =>
                /\ Len(matrix.val.rows[r].cells) = Len(matrix.val.header)
                /\ \A c \in DOMAIN matrix.val.header :
                      matrix.val.rows[r].cells[c] =
                          IF matrix.val.rows[r].dep
                                \in Get(resolved_deps.val, matrix.val.header[c])
                          THEN Required ELSE AlwaysIncluded

\* a non-optional dependency with a REQUIRED cell and an ALWAYS-INCLUDED cell
C3_Witness ==
    /\ matrix # NoneVal
    /\ \E r \in DOMAIN matrix.val.rows :
          /\ ~NamedOptional(data.val, matrix.val.rows[r].dep)
          /\ \E c1, c2 \in DOMAIN matrix.val.header :
                /\ matrix.val.rows[r].cells[c1] = Required
                /\ matrix.val.rows[r].cells[c2] = AlwaysIncluded

\* C9: in the row of an optional dependency the cell of a feature is REQUIRED
\* when the name is in the feature's resolved set and OPTIONAL-EXCLUDED
\* otherwise, and the feature columns are all the features in lexicographic
\* order of their names.
C9_OptionalCellsAndColumns ==
    matrix # NoneVal =>
        /\ Range(matrix.val.header) = FeatureNamesOf(data.val.features)
        /\ \A c \in 1..(Len(matrix.val.header) - 1) :
              StrLess(matrix.val.header[c], matrix.val.header[c + 1])
        /\ \A r \in DOMAIN matrix.val.rows :
              NamedOptional(data.val, matrix.val.rows[r].dep) =>
                  /\ Len(matrix.val.rows[r].cells) = Len(matrix.val.header)
                  /\ \A c \in DOMAIN matrix.val.header :
                        matrix.val.rows[r].cells[c] =
                            IF matrix.val.rows[r].dep
                                  \in Get(resolved_deps.val, matrix.val.header[c])
                            THEN Required ELSE OptionalExcluded

\* an optional dependency required by one feature and not by another, under
\* three columns whose key order in the manifest was not the sorted one
C9_Witness ==
    /\ matrix # NoneVal
    /\ matrix.val.header = <<s_A, s_F10, s_F2>>
    /\ Keys(data.val.features) = <<s_F2, s_F10, s_A>>
    /\ \E r \in DOMAIN matrix.val.rows :
          /\ NamedOptional(data.val, matrix.val.rows[r].dep)
          /\ \E c1, c2 \in DOMAIN matrix.val.header :
                /\ matrix.val.rows[r].cells[c1] = Required
                /\ matrix.val.rows[r].cells[c2] = OptionalExcluded

\* the names of the rows of a matrix, top to bottom
RowNames(m) == [r \in DOMAIN m.rows |-> m.rows[r].dep]

\* the names of the entries of the dependency list whose kind is not dev, one
\* per entry, in the order of the list
NonDevNames(d) ==
    LET notdev(dep) == dep.kind # "dev"
        kept == SelectSeq(d.dependencies, notdev)
    IN [i \in DOMAIN kept |-> kept[i].name]

\* C11: the matrix has exactly one row for each dependency whose kind is not
\* dev (normal or build, optional or not) and no row for a dependency of kind
\* dev, and the rows are in lexicographic order of the dependency names.
C11_RowsAreNonDevDependencies ==
    matrix # NoneVal => RowNames(matrix.val) = sorted(NonDevNames(data.val))

\* what the code keeps of C11: the rows are the entries whose name is the name
\* of no dev entry, one row per entry, in lexicographic order of the names
RowsAreNamesOutsideDevDeps ==
    matrix # NoneVal =>
        LET devname(name) == \E dep \in Range(data.val.dependencies) :
                                 dep.name = name /\ dep.kind = "dev"
            outside(dep) == ~devname(dep.name)
            kept == SelectSeq(data.val.dependencies, outside)
            names == RowNames(matrix.val)
        IN /\ names = sorted([i \in DOMAIN kept |-> kept[i].name])
           /\ \A r \in 1..(Len(names) - 1) :
                 names[r] = names[r + 1] \/ StrLess(names[r], names[r + 1])

\* the features whose resolved set contains the name
UsersOf(resolved, name) == {f \in Range(Keys(resolved)) : name \in Get(resolved, f)}

\* a non-optional entry of kind normal used by some features and not by all
Qualifies(d, resolved, dep) ==
    /\ ~dep.optional
    /\ dep.kind = "normal"
    /\ Cardinality(UsersOf(resolved, dep.name)) > 0
    /\ Cardinality(UsersOf(resolved, dep.name))
          < Cardinality(FeatureNamesOf(d.features))

\* C5: the candidates are, in the order of the dependency list, the entries
\* that are non-optional, of kind normal and used by more than zero and fewer
\* than all features; used_by holds exactly those features, each once, in
\* lexicographic order.  Optional, dev and build entries and entries used by
\* no feature or by every feature are not candidates.
C5_CandidatesExactlyPartialUse ==
    candidates # NoneVal =>
        LET d == data.val
            qualifying == {i \in DOMAIN d.dependencies :
                              Qualifies(d, resolved_deps.val, d.dependencies[i])}
        IN /\ Len(candidates.val) = Cardinality(qualifying)
           /\ \A i \in qualifying :
                 \E c \in DOMAIN candidates.val :
                    candidates.val[c].name = d.dependencies[i].name
           /\ \A c \in DOMAIN candidates.val :
                 LET cand == candidates.val[c]
                 IN /\ \E i \in qualifying : d.dependencies[i].name = cand.name
                    /\ Range(cand.used_by) = UsersOf(resolved_deps.val, cand.name)
                    /\ \A j \in 1..(Len(cand.used_by) - 1) :
                          StrLess(cand.used_by[j], cand.used_by[j + 1])

\* one candidate, used by two of three features whose key order was not the
\* sorted one, while an optional entry of kind normal that is used as much is
\* no candidate
C5_Witness ==
    /\ candidates # NoneVal
    /\ Keys(data.val.features) = <<s_F2, s_F10, s_A>>
    /\ Len(candidates.val) = 1
    /\ Len(candidates.val[1].used_by) = 2
    /\ \E dep \in Range(data.val.dependencies) :
          /\ dep.optional /\ dep.kind = "normal"
          /\ UsersOf(resolved_deps.val, dep.name) # {}

-----------------------------------------------------------------------------
(* calculate_dependency_usage, one interpreter step at a time: the loop over *)
(* the features and the frames of resolve_feature on the call stack         *)

\* the interpreter's limit on the depth of the call stack (1000 by default,
\* scaled to the graphs of the model: n features nest n + 1 frames)
RecursionLimit == 5

Frame(feature_name, seen) ==
    [feature_name |-> feature_name, seen |-> seen, at |-> "entry", i |-> 1,
     direct_deps |-> {}, indirect_deps |-> {}, result |-> {}]

Top == stack[Len(stack)]
SetTop(frame) == [stack EXCEPT ![Len(stack)] = frame]

\* for feature in data["features"]: resolved_deps[feature] = resolve_feature(feature)
OuterLoop ==
    /\ rpc = "for"
    /\ IF findex > Len(graph)
       THEN rpc' = "returned" /\ stack' = stack
       ELSE rpc' = "call" /\ stack' = <<Frame(graph[findex].k, {})>>
    /\ UNCHANGED <<graph, findex, retval, rresolved>>
    /\ UNCHANGED <<depVars, invVars>>

\* resolve_feature from its first line to the loop over the items
EnterFrame ==
    /\ rpc = "call"
    /\ Top.at = "entry"
    /\ IF Revisited(Top.feature_name, Top.seen)
       THEN stack' = SetTop([Top EXCEPT !.at = "return", !.result = {}])
       ELSE IF ~Has(graph, Top.feature_name)
       THEN stack' = SetTop([Top EXCEPT !.seen = @ \cup {Top.feature_name},
                                        !.at = "return", !.result = {}])
       ELSE stack' = SetTop([Top EXCEPT
                !.seen = @ \cup {Top.feature_name},
                !.direct_deps = Range(Get(FeatureDeps(graph), Top.feature_name)),
                !.at = "loop"])
    /\ UNCHANGED <<rpc, graph, findex, retval, rresolved>>
    /\ UNCHANGED <<depVars, invVars>>

\* one item of the loop: skip it, or call resolve_feature(item, seen.copy());
\* after the last item, return the union
IterateItems ==
    /\ rpc = "call"
    /\ Top.at = "loop"
    /\ LET items == Get(graph, Top.feature_name)
       IN IF Top.i > Len(items)
          THEN /\ stack' = SetTop([Top EXCEPT
                        !.at = "return",
                        !.result = Top.direct_deps \cup Top.indirect_deps])
               /\ rpc' = rpc
          ELSE IF ~startswith(items[Top.i], s_dep) /\ Has(graph, items[Top.i])
          THEN IF Len(stack) >= RecursionLimit
               THEN rpc' = "RecursionError" /\ stack' = <<>>
               ELSE /\ stack' = Append(SetTop([Top EXCEPT !.at = "called"]),
                                       Frame(items[Top.i], Top.seen))
                    /\ rpc' = rpc
          ELSE /\ stack' = SetTop([Top EXCEPT !.i = @ + 1])
               /\ rpc' = rpc
    /\ UNCHANGED <<graph, findex, retval, rresolved>>
    /\ UNCHANGED <<depVars, invVars>>

\* return: to the caller's indirect_deps.update(...), or to the loop over the
\* features
ReturnFrame ==
    /\ rpc = "call"
    /\ Top.at = "return"
    /\ retval' = Top.result
    /\ IF Len(stack) > 1
       THEN LET caller == stack[Len(stack) - 1]
            IN /\ stack' = [SubSeq(stack, 1, Len(stack) - 1) EXCEPT
                              ![Len(stack) - 1] =
                                 [caller EXCEPT
                                    !.indirect_deps = @ \cup Top.result,
                                    !.i = @ + 1, !.at = "loop"]]
               /\ UNCHANGED <<rpc, findex, rresolved>>
       ELSE /\ stack' = <<>>
            /\ rresolved' = Put(rresolved, graph[findex].k, Top.result)
            /\ findex' = findex + 1
            /\ rpc' = "for"
    /\ UNCHANGED graph
    /\ UNCHANGED <<depVars, invVars>>

NextSteps ==
    \/ OuterLoop
    \/ EnterFrame
    \/ IterateItems
    \/ ReturnFrame

\* total number of requirement tokens in the features table (SpecSteps)
MaxStepTokens == 3

StepTokens == {Dep(s_x), s_A, s_B, s_C}

DepsIdle ==
    /\ cargo = CargoFails("not run")
    /\ pc = "idle"
    /\ metadata = NoneVal
    /\ data = NoneVal
    /\ resolved_deps = NoneVal
    /\ matrix = NoneVal
    /\ candidates = NoneVal
    /\ report_file = NoneVal
    /\ exit_status = NoneVal

InitSteps ==
    /\ \E n \in 0..Len(ResolveNames) : \E len \in 0..MaxStepTokens :
         \E flat \in [1..len -> StepTokens] : \E cuts \in Cuts(n, len) :
            /\ n = 0 => len = 0
            /\ graph = GraphOf(ResolveNames, n, flat, cuts)
    /\ rpc = "for"
    /\ findex = 1
    /\ stack = <<>>
    /\ retval = {}
    /\ rresolved = <<>>
    /\ DepsIdle
    /\ InventoryIdle

\* the interpreter runs the program on: a step that can be taken is taken
SpecSteps == InitSteps /\ [][NextSteps]_vars /\ WF_vars(NextSteps)

\* the stepwise run returns what the function calculate_dependency_usage gives
StepsAgreeWithFunction ==
    rpc = "returned" => rresolved = calculate_dependency_usage([features |-> graph])

\* the graph of two features: A's only token is B, B's only token is A
CycleAB == graph = <<[k |-> s_A, v |-> <<s_B>>], [k |-> s_B, v |-> <<s_A>>]>>

\* C2: on every feature graph, cycles and self-references included, the
\* resolution of every feature returns (the loop over the features ends) and
\* no RecursionError is raised; on the graph A = [B], B = [A] both A and B
\* resolve to the empty set.
C2_ResolutionTerminates ==
    /\ <>(rpc = "returned")
    /\ [](rpc # "RecursionError")
    /\ [](rpc = "returned" =>
            /\ Keys(rresolved) = Keys(graph)
            /\ CycleAB => Get(rresolved, s_A) = {} /\ Get(rresolved, s_B) = {})

\* the run on A = [B], B = [A] has returned with both sets empty
C2_Witness ==
    /\ rpc = "returned"
    /\ CycleAB
    /\ Get(rresolved, s_A) = {}
    /\ Get(rresolved, s_B) = {}

-----------------------------------------------------------------------------
(* analyze_deps.py: the fatal conditions *)

\* the package lists of the metadata: none, the registry package, the
\* package of the repository, or both in either order
PackageLists(pkg) ==
    {<<>>, <<OtherPackage>>, <<pkg>>, <<OtherPackage, pkg>>, <<pkg, OtherPackage>>}

\* cargo fails, prints no JSON, is not installed, or prints metadata whose
\* workspace_members name any of the packages or none; the report file of
\* an earlier run may be there
InitMain ==
    /\ \/ cargo \in {CargoFails("CalledProcessError"), CargoFails("JSONDecodeError"),
                     CargoFails("FileNotFoundError")}
       \/ \E order \in MatrixOrders : \E n \in 0..Len(order) :
            \E items \in [1..n -> MatrixItems] :
              \E len \in 0..1 : \E deps \in [1..len -> MetaDeps] :
                \E packages \in PackageLists(Package(PkgId, s_pkg,
                                                MatrixGraph(order, n, items), deps)) :
                  \E members \in SUBSET {PkgId, OtherId} :
                     cargo = CargoOk([packages |-> packages,
                                      workspace_members |-> members])
    /\ report_file \in {NoneVal, Some(StaleReport)}
    /\ InitLocals
    /\ StepIdle

SpecMain == InitMain /\ [][NextDeps]_vars

\* the metadata cannot be obtained or parsed, or no package is a workspace
\* member
Fatal ==
    \/ cargo.outcome # "ok"
    \/ \A i \in DOMAIN cargo.doc.packages :
          cargo.doc.packages[i].id \notin cargo.doc.workspace_members

\* nothing was computed and the report file is as the earlier run left it
NothingProduced ==
    /\ resolved_deps = NoneVal
    /\ matrix = NoneVal
    /\ candidates = NoneVal
    /\ report_file \in {NoneVal, Some(StaleReport)}

\* C6: when the metadata cannot be obtained or parsed, or there is no root
\* package, the run ends having computed nothing and written no report, and
\* the process exits with a non-zero status.
C6_FatalExitsNonZero ==
    (pc = "exit" /\ Fatal) => (NothingProduced /\ exit_status # Some(0))

\* what the code keeps of C6: a fatal run computes and writes nothing, and
\* the report file changes only in the output step of a run
FatalProducesNothing == Fatal => NothingProduced
ReportWrittenOnlyByOutput == [][report_file' # report_file => pc = "output"]_vars

-----------------------------------------------------------------------------
(* inventory_features.py: the functions *)

s_base == <<"/", "r">>
s_a_rs == <<"a", ".", "r", "s">>
s_b_rs == <<"b", ".", "r", "s">>
s_a_c_rs == <<"a", "/", "c", ".", "r", "s">>

\* os.path.join(base_dir, rel)
PathJoin(base, rel) == Concat(Concat(base, <<"/">>), rel)

\* os.path.relpath(file, base_dir) for a file that os.walk(base_dir) found
relpath(file, base) == SliceFrom(file, Len(base) + 1)

\* A line of the [features] block of Cargo.toml: without '=', or key = value
\* where value is a bracketed list of quoted strings or a single string.
NoEqLine == [eq |-> FALSE]
ArrayLine(key, items) == [eq |-> TRUE, key |-> key, array |-> TRUE, items |-> items]
SingleLine(key, item) == [eq |-> TRUE, key |-> key, array |-> FALSE, items |-> <<item>>]

\* the loop over feature_block.split('\n'): a line without '=' is passed
\* over, a key that comes again replaces its value
RECURSIVE ParseFeatureLines(_, _)
ParseFeatureLines(lines, parsed) ==
    IF lines = <<>> THEN parsed
    ELSE ParseFeatureLines(Tail(lines),
            IF Head(lines).eq THEN Put(parsed, Head(lines).key, Head(lines).items)
            ELSE parsed)

\* {} when Cargo.toml is missing or cannot be read or has no [features] block
extract_cargo_features(toml) ==
    IF ~toml.exists THEN <<>>
    ELSE IF ~toml.readable THEN <<>>
    ELSE IF ~toml.has_block THEN <<>>
    ELSE ParseFeatureLines(toml.lines, <<>>)

\* The text of a source file as the patterns see it: the cfg attributes in
\* order, each with the names of its feature = "..." clauses (none for an
\* attribute such as cfg(test)), and whether it heads a cfg_if! block.
Attr(names) == [names |-> names, cfg_if |-> FALSE]
CfgIf(names) == [names |-> names, cfg_if |-> TRUE]

\* cfg_condition: the first feature clause of an attribute that has one
MatchCfgCondition(content) ==
    {content[i].names[1] : i \in {j \in DOMAIN content : content[j].names # <<>>}}

\* cfg_attributes, then cfg_if inside each: every feature clause
MatchCfgAttributes(content) == UNION {Range(content[i].names) : i \in DOMAIN content}

\* cfg_if_let: the first feature clause of the header of a cfg_if! block
MatchCfgIfLet(content) ==
    {content[i].names[1] :
        i \in {j \in DOMAIN content : content[j].cfg_if /\ content[j].names # <<>>}}

\* a scan that reads what it can of a file whose read failed
AnalyzeDespiteFailure(file) ==
    MatchCfgCondition(file.content) \cup MatchCfgAttributes(file.content)
        \cup MatchCfgIfLet(file.content)

\* the set `features` of analyze_file_features; empty when open or read raises
analyze_file_features(file) ==
    IF ~file.readable THEN {}
    ELSE MatchCfgCondition(file.content) \cup MatchCfgAttributes(file.content)
            \cup MatchCfgIfLet(file.content)

\* list(features): the elements of the set, each once, in an order that the
\* hashing decides
ListsOf(S) ==
    {l \in [1..Cardinality(S) -> S] : \A i, j \in DOMAIN l : l[i] = l[j] => i = j}

\* for feature in file_features: feature_usage[feature].append(rel_path)
RECURSIVE AppendUsage(_, _, _)
AppendUsage(usage, file_features, rel_path) ==
    IF file_features = <<>> THEN usage
    ELSE AppendUsage(
            Put(usage, Head(file_features),
                IF Has(usage, Head(file_features))
                THEN Append(Get(usage, Head(file_features)), rel_path)
                ELSE <<rel_path>>),
            Tail(file_features), rel_path)

\* a report whose file lists are left in the order of the scan
SortedUsageUnsorted(usage) == usage

\* {k: sorted(v) for k, v in feature_usage.items()}
SortedUsage(usage) == [i \in DOMAIN usage |-> [k |-> usage[i].k, v |-> sorted(usage[i].v)]]

\* the used features, taken for the unused ones
UnusedFeaturesSwapped(inv) ==
    LET used(f) == Has(inv.feature_usage, f)
    IN SelectSeq(Keys(inv.defined_features), used)

\* [f for f in inventory['defined_features'] if f not in inventory['feature_usage']]
UnusedFeatures(inv) ==
    LET unused(f) == ~Has(inv.feature_usage, f)
    IN SelectSeq(Keys(inv.defined_features), unused)

\* [f for f in inventory['feature_usage'] if f not in inventory['defined_features']]
UndefinedFeatures(inv) ==
    LET undefined(f) == ~Has(inv.defined_features, f)
    IN SelectSeq(Keys(inv.feature_usage), undefined)

-----------------------------------------------------------------------------
(* inventory_features.py: main *)

\* generate_feature_inventory up to its loop
StartInventory ==
    /\ ipc = "start"
    /\ defined_features' = Some(extract_cargo_features(cargo_toml))
    /\ feature_usage' = <<>>
    /\ file_count' = 0
    /\ files_with_features' = 0
    /\ ipc' = "scan"
    /\ UNCHANGED <<cargo_toml, tree, inventory, json_file, markdown_file, iexit>>
    /\ UNCHANGED <<depVars, stepVars>>

\* one turn of the loop over rust_files
ScanFile ==
    /\ ipc = "scan"
    /\ file_count < Len(tree)
    /\ LET file == tree[file_count + 1]
           rel_path == relpath(file.path, s_base)
       IN \E file_features \in ListsOf(analyze_file_features(file)) :
            /\ files_with_features' =
                  IF file_features # <<>> THEN files_with_features + 1
                  ELSE files_with_features
            /\ feature_usage' = AppendUsage(feature_usage, file_features, rel_path)
            /\ file_count' = file_count + 1
    /\ UNCHANGED <<cargo_toml, tree, ipc, defined_features, inventory, json_file,
                   markdown_file, iexit>>
    /\ UNCHANGED <<depVars, stepVars>>

\* the report that generate_feature_inventory returns
BuildReport ==
    /\ ipc = "scan"
    /\ file_count = Len(tree)
    /\ inventory' = Some([defined_features |-> defined_features.val,
                          feature_usage |-> SortedUsage(feature_usage),
                          stats |-> [total_files |-> file_count,
                                     files_with_features |-> files_with_features]])
    /\ ipc' = "write"
    /\ UNCHANGED <<cargo_toml, tree, defined_features, feature_usage, file_count,
                   files_with_features, json_file, markdown_file, iexit>>
    /\ UNCHANGED <<depVars, stepVars>>

\* main after generate_feature_inventory: the JSON report, then the Markdown
\* report with its recommendations
WriteReports ==
    /\ ipc = "write"
    /\ json_file' = Some(inventory.val)
    /\ markdown_file' = Some([stats |-> inventory.val.stats,
                              defined_features |-> inventory.val.defined_features,
                              feature_usage |-> inventory.val.feature_usage,
                              unused_features |-> UnusedFeatures(inventory.val),
                              undefined_features |-> UndefinedFeatures(inventory.val)])
    /\ ipc' = "done"
    /\ iexit' = Some(0)
    /\ UNCHANGED <<cargo_toml, tree, defined_features, feature_usage, file_count,
                   files_with_features, inventory>>
    /\ UNCHANGED <<depVars, stepVars>>

NextInventory ==
    \/ StartInventory
    \/ ScanFile
    \/ BuildReport
    \/ WriteReports

\* number of .rs files under base_dir
MaxFiles == 2

Toml(lines) == [exists |-> TRUE, readable |-> TRUE, has_block |-> TRUE, lines |-> lines]

\* Cargo.toml: missing, unreadable, without a [features] block, or with one
Manifests ==
    {[exists |-> FALSE],
     [exists |-> TRUE, readable |-> FALSE],
     [exists |-> TRUE, readable |-> TRUE, has_block |-> FALSE],
     Toml(<<>>),
     Toml(<<ArrayLine(s_A, <<>>)>>),
     Toml(<<ArrayLine(s_A, <<>>), ArrayLine(s_B, <<Dep(s_x), s_A>>)>>),
     Toml(<<ArrayLine(s_B, <<s_A>>), NoEqLine, ArrayLine(s_A, <<>>)>>),
     Toml(<<ArrayLine(s_A, <<>>), ArrayLine(s_A, <<s_B>>)>>),
     Toml(<<SingleLine(s_C, s_A)>>)}

\* what a .rs file holds
Contents ==
    {<<>>,
     <<Attr(<<>>)>>,
     <<Attr(<<s_A>>)>>,
     <<Attr(<<s_A>>), Attr(<<s_A>>)>>,
     <<Attr(<<s_A, s_C>>)>>,
     <<Attr(<<s_C>>), Attr(<<>>), Attr(<<s_A>>)>>,
     <<CfgIf(<<s_C>>)>>}

RelPaths == {s_b_rs, s_a_rs, s_a_c_rs}

File(rel, readable, content) ==
    [path |-> PathJoin(s_base, rel), readable |-> readable, content |-> content]

\* a file that can be read, or one whose open or decoding raises
FileStates ==
    {<<TRUE, c>> : c \in Contents}
        \cup {<<FALSE, c>> : c \in {<<Attr(<<s_A>>)>>, <<Attr(<<s_C>>), Attr(<<s_B>>)>>}}

InitInventory ==
    /\ cargo_toml \in Manifests
    /\ \E n \in 0..MaxFiles : \E rels \in [1..n -> RelPaths] :
         \E states \in [1..n -> FileStates] :
            /\ \A i, j \in 1..n : rels[i] = rels[j] => i = j
            /\ tree = [i \in 1..n |-> File(rels[i], states[i][1], states[i][2])]
    /\ ipc = "start"
    /\ defined_features = NoneVal
    /\ feature_usage = <<>>
    /\ file_count = 0
    /\ files_with_features = 0
    /\ inventory = NoneVal
    /\ json_file = NoneVal
    /\ markdown_file = NoneVal
    /\ iexit = NoneVal
    /\ DepsIdle
    /\ rpc = "idle"
    /\ graph = <<>>
    /\ findex = 0
    /\ stack = <<>>
    /\ retval = {}
    /\ rresolved = <<>>

SpecInventory == InitInventory /\ [][NextInventory]_vars

-----------------------------------------------------------------------------
(* The inventory *)

RelPathsOf(files) == {relpath(files[i].path, s_base) : i \in DOMAIN files}

\* the list of the elements of a set of strings in lexicographic order
SortedListOf(S) ==
    CHOOSE l \in ListsOf(S) : \A i \in 1..(Len(l) - 1) : StrLess(l[i], l[i + 1])

\* the files whose scan result holds the feature
FilesUsing(files, f) == {i \in DOMAIN files : f \in analyze_file_features(files[i])}

\* the features in the scan result of some file
FeaturesUsed(files) == UNION {analyze_file_features(files[i]) : i \in DOMAIN files}

\* C7: in the report, the relative path of a file is in feature_usage[f]
\* exactly when f is in the scan result of the file; it is there once however
\* many references to f the file has; every key has a non-empty list; every
\* list is in the order of the paths.
C7_UsageInvertsScanResults ==
    inventory # NoneVal =>
        LET U == inventory.val.feature_usage
        IN /\ Range(Keys(U)) = FeaturesUsed(tree)
           /\ \A e \in DOMAIN U :
                 /\ U[e].v # <<>>
                 /\ \A j \in 1..(Len(U[e].v) - 1) : StrLess(U[e].v[j], U[e].v[j + 1])
                 /\ Range(U[e].v) =
                       {relpath(tree[i].path, s_base) : i \in FilesUsing(tree, U[e].k)}

\* b.rs, which names A in two attributes, was scanned before a.rs, which
\* names A too: feature_usage[A] is [a.rs, b.rs]
C7_Witness ==
    /\ inventory # NoneVal
    /\ Len(tree) = 2
    /\ tree[1] = File(s_b_rs, TRUE, <<Attr(<<s_A>>), Attr(<<s_A>>)>>)
    /\ tree[2].path = PathJoin(s_base, s_a_rs)
    /\ Get(inventory.val.feature_usage, s_A) = <<s_a_rs, s_b_rs>>

\* C8: unusedFeatures are exactly the declared features that are no key of
\* feature_usage, undefinedFeatures exactly the keys of feature_usage that
\* are not declared, each once; the lists are disjoint, and the run ends
\* with them written and no failure.
C8_UnusedAndUndefined ==
    markdown_file # NoneVal =>
        LET md == markdown_file.val
            declared == Range(Keys(md.defined_features))
            used == Range(Keys(md.feature_usage))
        IN /\ Range(md.unused_features) = declared \ used
           /\ Range(md.undefined_features) = used \ declared
           /\ Len(md.unused_features) = Cardinality(declared \ used)
           /\ Len(md.undefined_features) = Cardinality(used \ declared)
           /\ Range(md.unused_features) \cap Range(md.undefined_features) = {}
           /\ ipc = "done"
           /\ iexit = Some(0)

\* declared {A, B}, used {A, C}: unused [B], undefined [C]
C8_Witness ==
    /\ markdown_file # NoneVal
    /\ Range(Keys(markdown_file.val.defined_features)) = {s_A, s_B}
    /\ Range(Keys(markdown_file.val.feature_usage)) = {s_A, s_C}
    /\ markdown_file.val.unused_features = <<s_B>>
    /\ markdown_file.val.undefined_features = <<s_C>>

\* some file of the tree cannot be read or decoded
SomeFileFails == \E i \in DOMAIN tree : ~tree[i].readable

\* the tree with every such file replaced by a file without feature references
WithFailedFilesBlank ==
    [i \in DOMAIN tree |->
        IF tree[i].readable THEN tree[i]
        ELSE [tree[i] EXCEPT !.readable = TRUE, !.content = <<>>]]

\* C10: in a run where reading some file fails, the failed file adds no path
\* to feature_usage, the run never stops short of its end or with a failure
\* status, and at the end both reports are written, total_files counts every
\* file, and feature_usage and files_with_features are those of the tree in
\* which the failed files hold no feature reference.
C10_FailedFileContributesNothing ==
    SomeFileFails =>
        /\ ipc = "done" \/ ENABLED NextInventory
        /\ iexit \in {NoneVal, Some(0)}
        /\ \A i \in 1..file_count :
              ~tree[i].readable =>
                 \A e \in DOMAIN feature_usage :
                    relpath(tree[i].path, s_base) \notin Range(feature_usage[e].v)
        /\ ipc = "done" =>
              /\ json_file = Some(inventory.val)
              /\ markdown_file # NoneVal
              /\ inventory.val.stats.total_files = Len(tree)
              /\ inventory.val.stats.files_with_features =
                    Cardinality({i \in DOMAIN tree :
                        analyze_file_features(WithFailedFilesBlank[i]) # {}})
              /\ Range(inventory.val.feature_usage) =
                    {[k |-> f,
                      v |-> SortedListOf({relpath(tree[i].path, s_base) :
                               i \in FilesUsing(WithFailedFilesBlank, f)})] :
                       f \in FeaturesUsed(WithFailedFilesBlank)}

\* the first file could not be read, the second names A: the run is done,
\* two files are counted, one has features, and only the second is listed
C10_Witness ==
    /\ ipc = "done"
    /\ Len(tree) = 2
    /\ ~tree[1].readable
    /\ tree[2].readable
    /\ inventory.val.stats.total_files = 2
    /\ inventory.val.stats.files_with_features = 1
    /\ inventory.val.feature_usage =
          <<[k |-> s_A, v |-> <<relpath(tree[2].path, s_base)>>]>>

=============================================================================
